---- MODULE Spec2Model ----
(***************************************************************************)
(* Explicit free list allocator of src/demo/explicit.c: boundary tags,     *)
(* a LIFO doubly-linked free list threaded through the free payloads,      *)
(* eager coalescing, first fit, splitting, heap extension with sbrk.       *)
(*                                                                         *)
(* The heap is a sequence of 8-byte words.  Addresses are byte addresses;  *)
(* the word at address a is mem[Idx(a)].  Every word of the model is below *)
(* 2^31 (the heap of the model is far smaller than 2 GiB and the caller    *)
(* stores small values), so the four high bytes of every word are zero.    *)
(* A 32-bit request is a pair <<hi, lo>> of 16-bit halves, so that the     *)
(* unsigned 32-bit sum of explicit_malloc keeps its width.                 *)
(***************************************************************************)
EXTENDS Integers, Sequences, FiniteSets, TLC

\* ------------------------------------------------------------------ bounds
\* most blocks the caller holds at once
MaxLive == 3
\* most times the sbrk-like primitive grows the heap after explicit_init
MaxSbrk == 1
\* most calls (malloc, free, realloc, store) the caller makes after explicit_init
MaxCalls == 4

\* ------------------------------------------------- constants (explicit.c)
WSIZE == 8
DSIZE == 2 * WSIZE
CHUNKSIZE == 4096
OVERHEAD == 2 * WSIZE
ALIGNMENT == 8
MINBLOCKSIZE == 32
NULL == 0

\* 2^16: a 32-bit value n is <<n \div HALF, n % HALF>>
HALF == 2 ^ 16
\* sizes from 2^30 on are kept as 2^30: no block and no heap of the model
\* comes near it, so every comparison the code makes has the same outcome
HUGE == 16384 * HALF

\* first address sbrk hands out (8-byte aligned, as the allocator assumes)
HeapStart == 2 * WSIZE

\* ------------------------------------------------------ 32-bit arithmetic
U32Zero == <<0, 0>>

\* uint32_t + int in unsigned 32-bit arithmetic (wraps modulo 2^32)
U32Add(n, k) ==
    LET lo == n[2] + k
    IN  <<(n[1] + (lo \div HALF)) % HALF, lo % HALF>>

\* uint32_t -> size_t, kept exactly below 2^30 and as HUGE from there on
ToSize(n) == IF n[1] >= 16384 THEN HUGE ELSE n[1] * HALF + n[2]

\* n <= k, n < k for a 32-bit n and a small k
U32Le(n, k) == n[1] = 0 /\ n[2] <= k
U32Lt(n, k) == n[1] = 0 /\ n[2] < k

\* ------------------------------------------------------------ word memory
Idx(a) == ((a - HeapStart) \div WSIZE) + 1

\* the address one past the last heap byte (what sbrk(0) would return)
mem_brk(m) == HeapStart + WSIZE * Len(m)

InHeap(m, a) == a >= HeapStart /\ a < mem_brk(m) /\ a % WSIZE = 0

\* Read and write an 8 byte word at address p.  An access outside the heap
\* happens only after a buffer overrun: the read yields 0, the write is lost.
GET(m, p) == IF InHeap(m, p) THEN m[Idx(p)] ELSE 0
PUT(m, p, val) == IF InHeap(m, p) THEN [m EXCEPT ![Idx(p)] = val] ELSE m

ALIGN(size) == (size + (ALIGNMENT - 1)) - ((size + (ALIGNMENT - 1)) % ALIGNMENT)

MAX(x, y) == IF x > y THEN x ELSE y

\* size | (alloc & 1)
PACK(size, alloc) == IF size % 2 = 1 THEN size ELSE size + (alloc % 2)

GET_SIZE(m, p) == GET(m, p) - (GET(m, p) % 8)
GET_ALLOC(m, p) == GET(m, p) % 2

HDRP(bp) == bp - WSIZE
FTRP(m, bp) == bp + GET_SIZE(m, HDRP(bp)) - DSIZE

NEXT_BLKP(m, bp) == bp + GET_SIZE(m, bp - WSIZE)
PREV_BLKP(m, bp) == bp - GET_SIZE(m, bp - DSIZE)

NEXT_FREE(m, bp) == GET(m, bp)
PREV_FREE(m, bp) == GET(m, bp + WSIZE)

SET_NEXT_FREE(m, bp, ptr) == PUT(m, bp, ptr)
SET_PREV_FREE(m, bp, ptr) == PUT(m, bp + WSIZE, ptr)

\* pointer to the prologue block (heap_listp after explicit_init)
heap_listp == HeapStart + DSIZE

\* the sbrk-like primitive: the heap grows by incr bytes of zeroed memory
\* and the old end is returned
sbrk(m, incr) == m \o [i \in 1..(incr \div WSIZE) |-> 0]

\* ------------------------------------------------------- local variables
\* Op applied to the value of v, v being computed once: the C statement
\* "x = v;" followed by the statements Op that use x
Bind(v, Op(_)) == CHOOSE r \in {Op(x) : x \in {v}} : TRUE

\* ------------------------------------------------------------- free list
\* A heap is a record [mem, free_listp].
insert_free(h, bp) ==
    Bind(SET_NEXT_FREE(h.mem, bp, h.free_listp), LAMBDA m1 :
    Bind(SET_PREV_FREE(m1, bp, NULL), LAMBDA m2 :
        [mem |-> IF h.free_listp # NULL THEN SET_PREV_FREE(m2, h.free_listp, bp)
                 ELSE m2,
         free_listp |-> bp]))

delete_free(h, bp) ==
    LET prev == PREV_FREE(h.mem, bp)
        next == NEXT_FREE(h.mem, bp)
    IN  Bind(IF prev # NULL THEN SET_NEXT_FREE(h.mem, prev, next) ELSE h.mem, LAMBDA m1 :
        Bind(IF next # NULL THEN SET_PREV_FREE(m1, next, prev) ELSE m1, LAMBDA m2 :
        Bind(SET_NEXT_FREE(m2, bp, NULL), LAMBDA m3 :
            [mem |-> SET_PREV_FREE(m3, bp, NULL),
             free_listp |-> IF prev # NULL THEN h.free_listp ELSE next])))

\* -------------------------------------------------------------- coalesce
\* coalesce with the three merging cases lost: the block only joins the list
coalesce_no_merge(h, bp) == [h |-> insert_free(h, bp), bp |-> bp]

\* coalesce merging only the block before bp when both neighbours are free
coalesce_prev_only(h, bp) ==
    LET m == h.mem
        prev_alloc == GET_ALLOC(m, FTRP(m, PREV_BLKP(m, bp)))
        next_alloc == GET_ALLOC(m, HDRP(NEXT_BLKP(m, bp)))
        size == GET_SIZE(m, HDRP(bp))
        prev_bp == PREV_BLKP(m, bp)
        next_bp == NEXT_BLKP(m, bp)
    IN  IF prev_alloc = 1 /\ next_alloc = 1 THEN
            [h |-> insert_free(h, bp), bp |-> bp]
        ELSE IF prev_alloc = 1 /\ next_alloc = 0 THEN
            Bind(delete_free(h, next_bp), LAMBDA h1 :
            Bind(size + GET_SIZE(h1.mem, HDRP(NEXT_BLKP(h1.mem, bp))), LAMBDA size2 :
            Bind(PUT(h1.mem, HDRP(bp), PACK(size2, 0)), LAMBDA m2 :
            Bind(PUT(m2, FTRP(m2, bp), PACK(size2, 0)), LAMBDA m3 :
                [h |-> insert_free([mem |-> m3, free_listp |-> h1.free_listp], bp),
                 bp |-> bp]))))
        ELSE
            Bind(delete_free(h, prev_bp), LAMBDA h1 :
            Bind(size + GET_SIZE(h1.mem, HDRP(prev_bp)), LAMBDA size2 :
            Bind(PUT(h1.mem, FTRP(h1.mem, bp), PACK(size2, 0)), LAMBDA m2 :
            Bind(PUT(m2, HDRP(prev_bp), PACK(size2, 0)), LAMBDA m3 :
                [h |-> insert_free([mem |-> m3, free_listp |-> h1.free_listp], prev_bp),
                 bp |-> prev_bp]))))

\* Returns the heap and the pointer to the coalesced block.
coalesce(h, bp) ==
    LET m == h.mem
        prev_alloc == GET_ALLOC(m, FTRP(m, PREV_BLKP(m, bp)))
        next_alloc == GET_ALLOC(m, HDRP(NEXT_BLKP(m, bp)))
        size == GET_SIZE(m, HDRP(bp))
        prev_bp == PREV_BLKP(m, bp)
        next_bp == NEXT_BLKP(m, bp)
    IN  IF prev_alloc = 1 /\ next_alloc = 1 THEN
            [h |-> insert_free(h, bp), bp |-> bp]
        ELSE IF prev_alloc = 1 /\ next_alloc = 0 THEN
            Bind(delete_free(h, next_bp), LAMBDA h1 :
            Bind(size + GET_SIZE(h1.mem, HDRP(NEXT_BLKP(h1.mem, bp))), LAMBDA size2 :
            Bind(PUT(h1.mem, HDRP(bp), PACK(size2, 0)), LAMBDA m2 :
            Bind(PUT(m2, FTRP(m2, bp), PACK(size2, 0)), LAMBDA m3 :
                [h |-> insert_free([mem |-> m3, free_listp |-> h1.free_listp], bp),
                 bp |-> bp]))))
        ELSE IF prev_alloc = 0 /\ next_alloc = 1 THEN
            Bind(delete_free(h, prev_bp), LAMBDA h1 :
            Bind(size + GET_SIZE(h1.mem, HDRP(prev_bp)), LAMBDA size2 :
            Bind(PUT(h1.mem, FTRP(h1.mem, bp), PACK(size2, 0)), LAMBDA m2 :
            Bind(PUT(m2, HDRP(prev_bp), PACK(size2, 0)), LAMBDA m3 :
                [h |-> insert_free([mem |-> m3, free_listp |-> h1.free_listp], prev_bp),
                 bp |-> prev_bp]))))
        ELSE
            Bind(delete_free(h, prev_bp), LAMBDA h1 :
            Bind(delete_free(h1, next_bp), LAMBDA h2 :
            Bind(size + GET_SIZE(h2.mem, HDRP(prev_bp))
                      + GET_SIZE(h2.mem, HDRP(next_bp)), LAMBDA size2 :
            Bind(PUT(h2.mem, HDRP(prev_bp), PACK(size2, 0)), LAMBDA m2 :
            Bind(PUT(m2, FTRP(m2, next_bp), PACK(size2, 0)), LAMBDA m3 :
                [h |-> insert_free([mem |-> m3, free_listp |-> h2.free_listp], prev_bp),
                 bp |-> prev_bp])))))

\* ------------------------------------------------------------ extend_heap
\* extend_heap writing the header of the new block before it tests what
\* sbrk answered
extend_heap_tag_before_test(h, words, ok) ==
    LET size0 == IF words % 2 = 1 THEN (words + 1) * WSIZE ELSE words * WSIZE
        size == IF size0 < MINBLOCKSIZE THEN MINBLOCKSIZE ELSE size0
        bp == mem_brk(h.mem)
    IN  IF ~ok \/ size >= HUGE THEN
            [h |-> [mem |-> PUT(h.mem, HDRP(bp), PACK(size, 0)),
                    free_listp |-> h.free_listp],
             bp |-> NULL, grown |-> 0]
        ELSE
            Bind(sbrk(h.mem, size), LAMBDA m0 :
            Bind(PUT(m0, HDRP(bp), PACK(size, 0)), LAMBDA m1 :
            Bind(PUT(m1, FTRP(m1, bp), PACK(size, 0)), LAMBDA m2 :
            Bind(PUT(m2, HDRP(NEXT_BLKP(m2, bp)), PACK(0, 1)), LAMBDA m3 :
            Bind(SET_NEXT_FREE(m3, bp, NULL), LAMBDA m4 :
            Bind(SET_PREV_FREE(m4, bp, NULL), LAMBDA m5 :
            Bind(coalesce([mem |-> m5, free_listp |-> h.free_listp], bp), LAMBDA c :
                [h |-> c.h, bp |-> c.bp, grown |-> size])))))))

\* ok: whether the sbrk-like primitive grants the growth.  Returns the heap,
\* the block pointer (NULL when sbrk refused) and the bytes obtained.
extend_heap(h, words, ok) ==
    LET size0 == IF words % 2 = 1 THEN (words + 1) * WSIZE ELSE words * WSIZE
        size == IF size0 < MINBLOCKSIZE THEN MINBLOCKSIZE ELSE size0
        bp == mem_brk(h.mem)
    IN  IF ~ok \/ size >= HUGE THEN [h |-> h, bp |-> NULL, grown |-> 0]
        ELSE
            Bind(sbrk(h.mem, size), LAMBDA m0 :
            Bind(PUT(m0, HDRP(bp), PACK(size, 0)), LAMBDA m1 :
            Bind(PUT(m1, FTRP(m1, bp), PACK(size, 0)), LAMBDA m2 :
            Bind(PUT(m2, HDRP(NEXT_BLKP(m2, bp)), PACK(0, 1)), LAMBDA m3 :
            Bind(SET_NEXT_FREE(m3, bp, NULL), LAMBDA m4 :
            Bind(SET_PREV_FREE(m4, bp, NULL), LAMBDA m5 :
            Bind(coalesce([mem |-> m5, free_listp |-> h.free_listp], bp), LAMBDA c :
                [h |-> c.h, bp |-> c.bp, grown |-> size])))))))

\* -------------------------------------------------------------- find_fit
RECURSIVE find_fit_from(_, _, _)
find_fit_from(m, bp, asize) ==
    IF bp = NULL THEN NULL
    ELSE IF asize <= GET_SIZE(m, HDRP(bp)) THEN bp
    ELSE find_fit_from(m, NEXT_FREE(m, bp), asize)

\* find_fit starting its search behind the head of the list
find_fit_skip_head(h, asize) ==
    IF h.free_listp = NULL THEN NULL
    ELSE find_fit_from(h.mem, NEXT_FREE(h.mem, h.free_listp), asize)

find_fit(h, asize) == find_fit_from(h.mem, h.free_listp, asize)

\* ----------------------------------------------------------------- place
\* place giving the remainder of a split one word too few
place_short_remainder(h, bp, asize) ==
    LET csize == GET_SIZE(h.mem, HDRP(bp))
    IN  Bind(delete_free(h, bp), LAMBDA h1 :
        IF (csize - asize) >= MINBLOCKSIZE THEN
            Bind(PUT(h1.mem, HDRP(bp), PACK(asize, 1)), LAMBDA m1 :
            Bind(PUT(m1, FTRP(m1, bp), PACK(asize, 1)), LAMBDA m2 :
            Bind(NEXT_BLKP(m2, bp), LAMBDA newp :
            Bind(PUT(m2, HDRP(newp), PACK(csize - asize - WSIZE, 0)), LAMBDA m3 :
            Bind(PUT(m3, FTRP(m3, newp), PACK(csize - asize - WSIZE, 0)), LAMBDA m4 :
            Bind(SET_NEXT_FREE(m4, newp, NULL), LAMBDA m5 :
            Bind(SET_PREV_FREE(m5, newp, NULL), LAMBDA m6 :
                insert_free([mem |-> m6, free_listp |-> h1.free_listp], newp))))))))
        ELSE
            Bind(PUT(h1.mem, HDRP(bp), PACK(csize, 1)), LAMBDA m1 :
                [mem |-> PUT(m1, FTRP(m1, bp), PACK(csize, 1)),
                 free_listp |-> h1.free_listp]))

\* place never splitting: the whole free block is handed out
place_never_splits(h, bp, asize) ==
    LET csize == GET_SIZE(h.mem, HDRP(bp))
    IN  Bind(delete_free(h, bp), LAMBDA h1 :
        Bind(PUT(h1.mem, HDRP(bp), PACK(csize, 1)), LAMBDA m1 :
            [mem |-> PUT(m1, FTRP(m1, bp), PACK(csize, 1)),
             free_listp |-> h1.free_listp]))

place(h, bp, asize) ==
    LET csize == GET_SIZE(h.mem, HDRP(bp))
    IN  Bind(delete_free(h, bp), LAMBDA h1 :
        IF (csize - asize) >= MINBLOCKSIZE THEN
            Bind(PUT(h1.mem, HDRP(bp), PACK(asize, 1)), LAMBDA m1 :
            Bind(PUT(m1, FTRP(m1, bp), PACK(asize, 1)), LAMBDA m2 :
            Bind(NEXT_BLKP(m2, bp), LAMBDA newp :
            Bind(PUT(m2, HDRP(newp), PACK(csize - asize, 0)), LAMBDA m3 :
            Bind(PUT(m3, FTRP(m3, newp), PACK(csize - asize, 0)), LAMBDA m4 :
            Bind(SET_NEXT_FREE(m4, newp, NULL), LAMBDA m5 :
            Bind(SET_PREV_FREE(m5, newp, NULL), LAMBDA m6 :
                insert_free([mem |-> m6, free_listp |-> h1.free_listp], newp))))))))
        ELSE
            Bind(PUT(h1.mem, HDRP(bp), PACK(csize, 1)), LAMBDA m1 :
                [mem |-> PUT(m1, FTRP(m1, bp), PACK(csize, 1)),
                 free_listp |-> h1.free_listp]))

\* -------------------------------------------------------- explicit_malloc
\* the adjusted size with the room for header and footer forgotten
adjusted_size_no_overhead(size) ==
    IF U32Le(size, DSIZE - WSIZE) THEN MINBLOCKSIZE
    ELSE LET asize == ALIGN(ToSize(size))
         IN  IF asize < MINBLOCKSIZE THEN MINBLOCKSIZE ELSE asize

\* the adjusted block size of a request of size bytes (size is uint32_t, so
\* size + OVERHEAD is an unsigned 32-bit sum; ALIGN then works on size_t)
adjusted_size(size) ==
    IF U32Le(size, DSIZE - WSIZE) THEN MINBLOCKSIZE
    ELSE LET asize == ALIGN(ToSize(U32Add(size, OVERHEAD)))
         IN  IF asize < MINBLOCKSIZE THEN MINBLOCKSIZE ELSE asize

\* explicit_malloc with the test for a request of 0 bytes lost
explicit_malloc_no_zero_test(h, size, ok) ==
    Bind(adjusted_size(size), LAMBDA asize :
    Bind(find_fit(h, asize), LAMBDA bp :
        IF bp # NULL THEN [h |-> place(h, bp, asize), ret |-> bp, grown |-> 0]
        ELSE
            Bind(extend_heap(h, MAX(asize, CHUNKSIZE) \div WSIZE, ok), LAMBDA e :
                IF e.bp = NULL THEN [h |-> e.h, ret |-> NULL, grown |-> 0]
                ELSE [h |-> place(e.h, e.bp, asize), ret |-> e.bp,
                      grown |-> e.grown])))

\* Returns the heap, the pointer handed out (NULL on failure) and the bytes
\* obtained from sbrk.
explicit_malloc(h, size, ok) ==
    IF size = U32Zero THEN [h |-> h, ret |-> NULL, grown |-> 0]
    ELSE
        Bind(adjusted_size(size), LAMBDA asize :
        Bind(find_fit(h, asize), LAMBDA bp :
            IF bp # NULL THEN [h |-> place(h, bp, asize), ret |-> bp, grown |-> 0]
            ELSE
                Bind(extend_heap(h, MAX(asize, CHUNKSIZE) \div WSIZE, ok), LAMBDA e :
                    IF e.bp = NULL THEN [h |-> e.h, ret |-> NULL, grown |-> 0]
                    ELSE [h |-> place(e.h, e.bp, asize), ret |-> e.bp,
                          grown |-> e.grown])))

\* ---------------------------------------------------------- explicit_free
explicit_free(h, bp) ==
    LET size == GET_SIZE(h.mem, HDRP(bp))
    IN  Bind(PUT(h.mem, HDRP(bp), PACK(size, 0)), LAMBDA m1 :
        Bind(PUT(m1, FTRP(m1, bp), PACK(size, 0)), LAMBDA m2 :
        Bind(SET_NEXT_FREE(m2, bp, NULL), LAMBDA m3 :
        Bind(SET_PREV_FREE(m3, bp, NULL), LAMBDA m4 :
            coalesce([mem |-> m4, free_listp |-> h.free_listp], bp).h))))

\* ---------------------------------------------------------- explicit_init
\* Returns the heap, and 0 or (when sbrk refuses) -1.
explicit_init(ok) ==
    LET base == HeapStart
    IN  Bind(sbrk(<<>>, 4 * WSIZE), LAMBDA m0 :
        Bind(PUT(m0, base, 0), LAMBDA m1 :
        Bind(PUT(m1, base + (1 * WSIZE), PACK(DSIZE, 1)), LAMBDA m2 :
        Bind(PUT(m2, base + (2 * WSIZE), PACK(DSIZE, 1)), LAMBDA m3 :
        Bind(PUT(m3, base + (3 * WSIZE), PACK(0, 1)), LAMBDA m4 :
        Bind(extend_heap([mem |-> m4, free_listp |-> NULL], CHUNKSIZE \div WSIZE, ok),
             LAMBDA e :
                [h |-> e.h, rc |-> IF e.bp = NULL THEN -1 ELSE 0]))))))

\* ----------------------------------------------------------------- memcpy
\* k low bytes of word src over word dst (little endian).  With every word
\* below 2^31, copying four bytes or more copies the whole value.
MergeBytes(dst, src, k) ==
    IF k = 0 THEN dst
    ELSE IF k >= 4 THEN src
    ELSE LET b == 256 ^ k IN (dst \div b) * b + (src % b)

\* memcpy(dst, src, n).  For ranges that do not overlap every dst word gets
\* the src word.  When they overlap (possible only once a caller of memcpy
\* overruns a block) the result depends on the order of the copy, which the
\* library is free to choose: down says whether it copies from the last
\* word to the first.  origin(i) is the src word whose old value ends up in
\* dst word i.  Words past the heap end are not part of the model.
memcpy(m, dst, src, n, down) ==
    LET nw == n \div WSIZE
        rem == n % WSIZE
        d == (src - dst) \div WSIZE
        origin(i) == IF down /\ d > 0 /\ d < nw THEN i + d * ((nw - 1 - i) \div d)
                     ELSE IF ~down /\ d < 0 /\ (-d) < nw THEN i % (-d)
                     ELSE i
        span == nw * WSIZE
        m1 == IF /\ InHeap(m, dst) /\ InHeap(m, src)
                 /\ dst + span <= mem_brk(m) /\ src + span <= mem_brk(m)
                 /\ (dst + span <= src \/ src + span <= dst)
              THEN SubSeq(m, 1, Idx(dst) - 1)
                   \o SubSeq(m, Idx(src), Idx(src) + nw - 1)
                   \o SubSeq(m, Idx(dst) + nw, Len(m))
              ELSE [j \in 1..Len(m) |->
                      IF j >= Idx(dst) /\ j < Idx(dst) + nw
                      THEN GET(m, src + origin(j - Idx(dst)) * WSIZE)
                      ELSE m[j]]
    IN  IF rem = 0 THEN m1
        ELSE Bind(m1, LAMBDA m2 :
                PUT(m2, dst + nw * WSIZE,
                    MergeBytes(GET(m, dst + nw * WSIZE), GET(m, src + nw * WSIZE), rem)))

\* ------------------------------------------------------- explicit_realloc
\* Returns the heap, the new pointer (NULL: the process printed the error
\* and called exit) and whether memcpy wrote past the payload of the new block.
explicit_realloc(h, ptr, size, ok, down) ==
    Bind(explicit_malloc(h, size, ok), LAMBDA r :
        IF r.ret = NULL THEN [h |-> r.h, ret |-> NULL, grown |-> 0, overrun |-> FALSE]
        ELSE
            LET newp == r.ret
                fullSize == GET_SIZE(r.h.mem, HDRP(ptr)) - OVERHEAD
                copySize == IF U32Lt(size, fullSize) THEN size[2] ELSE fullSize
            IN  Bind(memcpy(r.h.mem, newp, ptr, copySize, down), LAMBDA m1 :
                    [h |-> explicit_free([mem |-> m1, free_listp |-> r.h.free_listp], ptr),
                     ret |-> newp, grown |-> r.grown,
                     overrun |-> copySize > GET_SIZE(r.h.mem, HDRP(newp)) - OVERHEAD]))

\* ------------------------------------------------------------ the caller
\* the requests the caller makes (32-bit byte counts as <<hi, lo>>)
Requests ==
    { <<0, 0>>, <<0, 1>>, <<0, 98>>, <<0, 4040>>, <<0, 4090>>,
      <<HALF - 1, HALF - 17>>, <<HALF - 1, HALF - 16>> }

\* the word the caller stores into its blocks
Data == {34}

VARIABLES
    mem,         \* the heap, one entry per 8-byte word
    free_listp,  \* pointer to first free block
    live,        \* caller's view: pointer handed out and not yet freed -> request
    last,        \* the last call and what it returned
    status,      \* "run", "exit" (realloc called exit), "undefined" (overrun)
    nsbrk,       \* times sbrk has grown the heap since explicit_init
    ncalls,      \* calls the caller has made since explicit_init
    hist         \* the calls of a scripted caller so far, in order (it keeps
                 \* the pointers it was given, as ptrs[] of main.c); the
                 \* caller that calls at will keeps none

vars == <<mem, free_listp, live, last, status, nsbrk, ncalls, hist>>

heap == [mem |-> mem, free_listp |-> free_listp]

Call(op, ptr, n, ret) == [op |-> op, ptr |-> ptr, n |-> n, ret |-> ret]

Init ==
    /\ \E r \in {explicit_init(TRUE)} :
           /\ mem = r.h.mem
           /\ free_listp = r.h.free_listp
    /\ live = <<>>
    /\ last = Call("init", NULL, U32Zero, NULL)
    /\ status = "run"
    /\ nsbrk = 0
    /\ ncalls = 0
    /\ hist = <<>>

Extend(f, k, v) == [x \in DOMAIN f \cup {k} |-> IF x = k THEN v ELSE f[x]]
Remove(f, k) == [x \in DOMAIN f \ {k} |-> f[x]]

\* bytes of the block at bp the caller may use
Capacity(m, bp) == GET_SIZE(m, HDRP(bp)) - OVERHEAD

\* the caller may make one more call
Ready == status = "run" /\ ncalls < MaxCalls

\* the call p = explicit_malloc(n) and what the caller keeps of it
MallocCall(n, ok) ==
    /\ Cardinality(DOMAIN live) < MaxLive
    /\ \E r \in {explicit_malloc(heap, n, ok /\ nsbrk < MaxSbrk)} :
           /\ mem' = r.h.mem
           /\ free_listp' = r.h.free_listp
           /\ live' = IF r.ret # NULL THEN Extend(live, r.ret, n) ELSE live
           /\ last' = Call("malloc", NULL, n, r.ret)
           /\ nsbrk' = IF r.grown > 0 THEN nsbrk + 1 ELSE nsbrk
    /\ ncalls' = ncalls + 1
    /\ UNCHANGED <<status, hist>>

Malloc(n, ok) == Ready /\ MallocCall(n, ok)

\* the call explicit_free(p)
FreeCall(p) ==
    /\ p \in DOMAIN live
    /\ \E h \in {explicit_free(heap, p)} :
           /\ mem' = h.mem
           /\ free_listp' = h.free_listp
    /\ live' = Remove(live, p)
    /\ last' = Call("free", p, U32Zero, NULL)
    /\ ncalls' = ncalls + 1
    /\ UNCHANGED <<status, nsbrk, hist>>

Free(p) == Ready /\ FreeCall(p)

\* the call q = explicit_realloc(p, n); once a copy has overrun a block the
\* run stays undefined
ReallocCall(p, n, ok, down) ==
    /\ p \in DOMAIN live
    /\ \E r \in {explicit_realloc(heap, p, n, ok /\ nsbrk < MaxSbrk, down)} :
           /\ mem' = r.h.mem
           /\ free_listp' = r.h.free_listp
           /\ live' = IF r.ret # NULL THEN Extend(Remove(live, p), r.ret, n) ELSE live
           /\ last' = Call("realloc", p, n, r.ret)
           /\ nsbrk' = IF r.grown > 0 THEN nsbrk + 1 ELSE nsbrk
           /\ status' = IF r.ret = NULL THEN "exit"
                        ELSE IF r.overrun THEN "undefined" ELSE status
    /\ ncalls' = ncalls + 1
    /\ UNCHANGED hist

Realloc(p, n, ok, down) == Ready /\ ReallocCall(p, n, ok, down)

\* the caller stores d into every word of the n bytes at p (of the last
\* word, the low bytes only)
store(m, p, n, d) ==
    LET nw == n \div WSIZE
        rem == n % WSIZE
        m1 == SubSeq(m, 1, Idx(p) - 1) \o [i \in 1..nw |-> d]
                 \o SubSeq(m, Idx(p) + nw, Len(m))
    IN  IF rem = 0 THEN m1
        ELSE Bind(m1, LAMBDA m2 :
                PUT(m2, p + nw * WSIZE, MergeBytes(GET(m2, p + nw * WSIZE), d, rem)))

\* bytes of the block at p the caller writes: those it asked for, and no
\* more than the block holds
Usable(m, p, n) == IF U32Lt(n, Capacity(m, p)) THEN n[2] ELSE Capacity(m, p)

\* the caller writes d into its block at p
StoreCall(p, d) ==
    /\ p \in DOMAIN live
    /\ mem' = store(mem, p, Usable(mem, p, live[p]), d)
    /\ mem' # mem
    /\ last' = Call("store", p, U32Zero, NULL)
    /\ ncalls' = ncalls + 1
    /\ UNCHANGED <<free_listp, live, status, nsbrk, hist>>

Store(p, d) == Ready /\ StoreCall(p, d)

\* what sbrk may answer: it can refuse at any time, and refuses once the
\* heap has grown MaxSbrk times
SbrkAnswers == IF nsbrk < MaxSbrk THEN BOOLEAN ELSE {FALSE}

NextOf(R) ==
    \/ \E n \in R, ok \in SbrkAnswers : Malloc(n, ok)
    \/ \E p \in DOMAIN live : Free(p)
    \/ \E p \in DOMAIN live, n \in R, ok \in SbrkAnswers, down \in BOOLEAN :
          Realloc(p, n, ok, down)
    \/ \E p \in DOMAIN live, d \in Data : Store(p, d)

Next == NextOf(Requests)

Spec == Init /\ [][Next]_vars

\* requests whose 32-bit sum size + OVERHEAD wraps around
Wraps(n) == n[1] = HALF - 1 /\ n[2] + OVERHEAD >= HALF

\* the same caller, making no request that wraps
NextNoWrap == NextOf({n \in Requests : ~Wraps(n)})

SpecNoWrap == Init /\ [][NextNoWrap]_vars

\* A caller cannot see that a realloc has overrun a block: it goes on
\* calling.  What the allocator then does is what explicit.c does on the
\* heap the overrun left behind.
GoesOn == status = "undefined" /\ ncalls < MaxCalls

NextOn ==
    \/ Next
    \/ GoesOn /\ \E n \in Requests, ok \in SbrkAnswers : MallocCall(n, ok)
    \/ GoesOn /\ \E p \in DOMAIN live : FreeCall(p)
    \/ GoesOn /\ \E p \in DOMAIN live, n \in Requests, ok \in SbrkAnswers, down \in BOOLEAN :
          ReallocCall(p, n, ok, down)
    \/ GoesOn /\ \E p \in DOMAIN live, d \in Data : StoreCall(p, d)

SpecOn == Init /\ [][NextOn]_vars

\* ------------------------------------------------------ scripted callers
\* The callers of main.c and the end-to-end runs call in a fixed order and
\* keep every pointer they are given.  Here sbrk grants what it is asked.

\* mallocs a churn run makes at most: one heap extension is forced
MaxChurn == 87

\* the scripted call p = explicit_malloc(n)
ScriptMalloc(n) ==
    /\ \E r \in {explicit_malloc(heap, n, TRUE)} :
           /\ mem' = r.h.mem
           /\ free_listp' = r.h.free_listp
           /\ live' = IF r.ret # NULL THEN Extend(live, r.ret, n) ELSE live
           /\ last' = Call("malloc", NULL, n, r.ret)
           /\ nsbrk' = IF r.grown > 0 THEN nsbrk + 1 ELSE nsbrk
    /\ ncalls' = ncalls + 1
    /\ hist' = Append(hist, last')
    /\ UNCHANGED status

\* the scripted call explicit_free(p)
ScriptFree(p) ==
    /\ p \in DOMAIN live
    /\ \E h \in {explicit_free(heap, p)} :
           /\ mem' = h.mem
           /\ free_listp' = h.free_listp
    /\ live' = Remove(live, p)
    /\ last' = Call("free", p, U32Zero, NULL)
    /\ ncalls' = ncalls + 1
    /\ hist' = Append(hist, last')
    /\ UNCHANGED <<status, nsbrk>>

\* the calls so far are the mallocs of sizes[1], sizes[2], ...
Asked(sizes) ==
    /\ Len(hist) <= Len(sizes)
    /\ \A i \in DOMAIN hist : hist[i].op = "malloc" /\ hist[i].n = sizes[i]

\* the run began with the mallocs of sizes
Began(sizes) ==
    /\ Len(hist) >= Len(sizes)
    /\ \A i \in DOMAIN sizes : hist[i].op = "malloc" /\ hist[i].n = sizes[i]

NFree == Cardinality({i \in DOMAIN hist : hist[i].op = "free"})

\* fixed-size churn: N times malloc(32), then the N pointers freed in the
\* order they were handed out, for any N up to MaxChurn
ChurnSize == <<0, 32>>

InChurn == hist # <<>> /\ hist[1].n = ChurnSize

ChurnMalloc ==
    /\ Asked([i \in 1..MaxChurn |-> ChurnSize])
    /\ Len(hist) < MaxChurn
    /\ ScriptMalloc(ChurnSize)

ChurnFree ==
    /\ InChurn
    /\ 2 * NFree < Len(hist)
    /\ ScriptFree(hist[NFree + 1].ret)

\* coalescing: A, B, C of 64 bytes each, then freed in any order
CoalesceSizes == << <<0, 64>>, <<0, 64>>, <<0, 64>> >>

CoalesceMalloc ==
    /\ Asked(CoalesceSizes)
    /\ Len(hist) < Len(CoalesceSizes)
    /\ ScriptMalloc(CoalesceSizes[Len(hist) + 1])

CoalesceFree ==
    /\ Began(CoalesceSizes)
    /\ \E p \in DOMAIN live : ScriptFree(p)

\* first fit: blocks of 64, 128 and 256 bytes, each followed by a block
\* that stays allocated, are freed in any order; then one malloc
FitSizes == << <<0, 48>>, <<0, 1>>, <<0, 112>>, <<0, 1>>, <<0, 240>>, <<0, 1>> >>

FitSlots == {1, 3, 5}

FitRequests == { <<0, 100>>, <<0, 208>>, <<0, 216>> }

FitBuild ==
    /\ Asked(FitSizes)
    /\ Len(hist) < Len(FitSizes)
    /\ ScriptMalloc(FitSizes[Len(hist) + 1])

FitFree ==
    /\ Began(FitSizes)
    /\ Len(hist) < Len(FitSizes) + Cardinality(FitSlots)
    /\ \E i \in FitSlots : ScriptFree(hist[i].ret)

FitMalloc ==
    /\ Began(FitSizes)
    /\ Len(hist) = Len(FitSizes) + Cardinality(FitSlots)
    /\ \E n \in FitRequests : ScriptMalloc(n)

NextScenario ==
    \/ ChurnMalloc
    \/ ChurnFree
    \/ CoalesceMalloc
    \/ CoalesceFree
    \/ FitBuild
    \/ FitFree
    \/ FitMalloc

SpecScenario == Init /\ [][NextScenario]_vars

\* ------------------------------------------------------------ heap walks
\* explicit_checkheap's walk: the block pointers from bp on, up to the first
\* header of size 0 (or the heap end, should a header lead past it)
RECURSIVE Walk(_, _)
Walk(m, bp) ==
    IF ~InHeap(m, HDRP(bp)) \/ GET_SIZE(m, HDRP(bp)) = 0 THEN <<>>
    ELSE <<bp>> \o Walk(m, NEXT_BLKP(m, bp))

\* where that walk stops
RECURSIVE WalkEnd(_, _)
WalkEnd(m, bp) ==
    IF ~InHeap(m, HDRP(bp)) \/ GET_SIZE(m, HDRP(bp)) = 0 THEN bp
    ELSE WalkEnd(m, NEXT_BLKP(m, bp))

\* the free-list walk from bp through next, stopping at NULL, at a pointer
\* outside the heap or at a block already seen
RECURSIVE ListFrom(_, _, _)
ListFrom(m, bp, seen) ==
    IF bp = NULL \/ bp \in seen \/ ~InHeap(m, bp) THEN <<>>
    ELSE <<bp>> \o ListFrom(m, NEXT_FREE(m, bp), seen \cup {bp})

\* the pointer at which that walk stops (NULL for a well-ended list)
RECURSIVE ListStop(_, _, _)
ListStop(m, bp, seen) ==
    IF bp = NULL \/ bp \in seen \/ ~InHeap(m, bp) THEN bp
    ELSE ListStop(m, NEXT_FREE(m, bp), seen \cup {bp})

Range(q) == {q[i] : i \in 1..Len(q)}

Blocks == Walk(mem, heap_listp)
FreeBlocks == {bp \in Range(Blocks) : GET_ALLOC(mem, HDRP(bp)) = 0}
FreeList == ListFrom(mem, free_listp, {})
FreeListEnds == ListStop(mem, free_listp, {}) = NULL

\* ------------------------------------------------------------------ C1
\* C1: the blocks with alloc bit 0 met by the physical walk from the
\* prologue to the epilogue are exactly the blocks next leads through from
\* free_listp; each is in the list once, and no allocated block is in it.
C1_FreeListIsFreeBlocks ==
    /\ FreeListEnds
    /\ Range(FreeList) = FreeBlocks
    /\ Cardinality(Range(FreeList)) = Len(FreeList)

\* ------------------------------------------------------------------ C2
\* C2: no two physically consecutive blocks both have alloc bit 0.
C2_NoAdjacentFree ==
    \A i \in 1..(Len(Blocks) - 1) :
        ~(/\ GET_ALLOC(mem, HDRP(Blocks[i])) = 0
          /\ GET_ALLOC(mem, HDRP(Blocks[i + 1])) = 0)

\* ------------------------------------------------------------------ C3
\* C3: every block of the physical walk (prologue included) has a footer
\* word equal to its header word.
C3_HeaderIsFooter ==
    \A bp \in Range(Blocks) : GET(mem, HDRP(bp)) = GET(mem, FTRP(mem, bp))

\* ------------------------------------------------------------------ C4
\* C4: the free list is a well-formed doubly-linked list: the head has a
\* null prev; for every free block L, prev(L) is null or next(prev(L)) = L,
\* and next(L) is null or prev(next(L)) = L; following next from the head
\* ends at null without revisiting a block.
C4_ListWellFormed ==
    /\ FreeListEnds
    /\ free_listp # NULL => PREV_FREE(mem, free_listp) = NULL
    /\ \A L \in FreeBlocks \cup Range(FreeList) :
          /\ PREV_FREE(mem, L) = NULL \/ NEXT_FREE(mem, PREV_FREE(mem, L)) = L
          /\ NEXT_FREE(mem, L) = NULL \/ PREV_FREE(mem, NEXT_FREE(mem, L)) = L

\* ------------------------------------------------------------------ C5
\* C5: the prologue header and footer hold (16, allocated), the last word
\* of the heap holds the epilogue tag (0, allocated), and the physical walk
\* from the prologue ends exactly at that word, never past the heap end.
C5_Sentinels ==
    /\ GET(mem, HDRP(heap_listp)) = PACK(DSIZE, 1)
    /\ GET(mem, heap_listp) = PACK(DSIZE, 1)
    /\ mem[Len(mem)] = PACK(0, 1)
    /\ HDRP(WalkEnd(mem, heap_listp)) = mem_brk(mem) - WSIZE

\* ------------------------------------------------------------------ C6
\* the tag word of a block holds nothing but a multiple of 8 and the alloc bit
SizeIsAligned(m, bp) == (GET(m, HDRP(bp)) - GET_ALLOC(m, HDRP(bp))) % ALIGNMENT = 0

C7_PayloadHoldsRequest ==
    (last.op = "malloc" /\ last.ret # NULL) =>
        /\ GET_ALLOC(mem, HDRP(last.ret)) = 1
        /\ U32Le(last.n, Capacity(mem, last.ret))

\* ------------------------------------------------------------------ C8
\* address a lies in the payload [bp, bp + size - 16)
InPayload(m, bp, a) == bp <= a /\ a < bp + Capacity(m, bp)

\* the words of that payload, in address order
Payload(m, bp) == SubSeq(m, Idx(bp), Idx(bp) + (Capacity(m, bp) \div WSIZE) - 1)

\* live payloads are pairwise disjoint and hold no header, footer or
\* free-list link word of another block
PayloadsApart ==
    \A p \in DOMAIN live :
        /\ \A q \in DOMAIN live \ {p} :
              \/ Capacity(mem, p) <= 0
              \/ Capacity(mem, q) <= 0
              \/ p + Capacity(mem, p) <= q
              \/ q + Capacity(mem, q) <= p
        /\ \A b \in Range(Blocks) \ {p} :
              /\ ~InPayload(mem, p, HDRP(b))
              /\ ~InPayload(mem, p, FTRP(mem, b))
              /\ GET_ALLOC(mem, HDRP(b)) = 0 =>
                    (~InPayload(mem, p, b) /\ ~InPayload(mem, p, b + WSIZE))

\* a call of the allocator changes no payload word of a block that is live
\* before and after it
PayloadsKept ==
    last'.op \in {"malloc", "free", "realloc"} =>
        \A p \in DOMAIN live \cap DOMAIN live' :
            SubSeq(mem', Idx(p), Idx(p) + (Capacity(mem, p) \div WSIZE) - 1)
                = Payload(mem, p)

\* C8: while a block stays allocated no later allocator call changes a word
\* of its payload; live payloads are pairwise disjoint and contain no
\* header, footer or free-list link word of any other block.
C8_PayloadUntouched == []PayloadsApart /\ [][PayloadsKept]_vars

\* ------------------------------------------------------------------ C9
\* the first k bytes at q in m1 are the first k bytes at p in m2
SameBytes(m1, q, m2, p, k) ==
    LET nw == k \div WSIZE
        rem == k % WSIZE
    IN  /\ \A i \in 0..(nw - 1) : GET(m1, q + i * WSIZE) = GET(m2, p + i * WSIZE)
        /\ MergeBytes(0, GET(m1, q + nw * WSIZE), rem)
             = MergeBytes(0, GET(m2, p + nw * WSIZE), rem)

\* the free-list block whose bytes hold address p, if any
FreeBlockHolding(m, fl, p) ==
    {b \in Range(ListFrom(m, fl, {})) :
        GET_ALLOC(m, HDRP(b)) = 0 /\ HDRP(b) < p /\ p < HDRP(b) + GET_SIZE(m, HDRP(b))}

\* C9: realloc(p, n) with p live, n > 0 and the inner malloc succeeding
\* returns q # p to an allocated block whose first min(n, size(p) - 16)
\* bytes are those p held before the call; afterwards p's block is free (in
\* the free list, not allocated) and q's block is allocated.
C9_ReallocCopies ==
    [][(last'.op = "realloc" /\ last'.ret # NULL) =>
        LET p == last'.ptr
            q == last'.ret
        IN  /\ q # p
            /\ GET_ALLOC(mem', HDRP(q)) = 1
            /\ q \in Range(Walk(mem', heap_listp))
            /\ SameBytes(mem', q, mem, p, Usable(mem, p, last'.n))
            /\ FreeBlockHolding(mem', free_listp', p) # {}
            /\ p \notin DOMAIN live' /\ q \in DOMAIN live']_vars

\* ----------------------------------------------------------------- C10
\* the physical sequence of blocks as (size, alloc bit), and the heap end
Layout(m) ==
    LET w == Walk(m, heap_listp)
    IN  <<[i \in 1..Len(w) |-> <<GET_SIZE(m, HDRP(w[i])), GET_ALLOC(m, HDRP(w[i]))>>],
          mem_brk(m)>>

\* the heap after the call just made
heapAfter == [mem |-> mem', free_listp |-> free_listp']

\* free(p) at once after p = malloc(n) gives back the layout before the malloc
RoundTrip ==
    Bind(explicit_free(heapAfter, last'.ret).mem, LAMBDA m : Layout(m) = Layout(mem))

C11_MallocZeroIsNoOp ==
    [][(last'.op = "malloc" /\ last'.n = U32Zero) =>
          /\ last'.ret = NULL
          /\ mem' = mem
          /\ mem_brk(mem') = mem_brk(mem)
          /\ free_listp' = free_listp]_vars

\* malloc(0) just answered, two blocks being live
C11_ZeroAsked ==
    /\ last.op = "malloc" /\ last.n = U32Zero /\ last.ret = NULL
    /\ Cardinality(DOMAIN live) >= 2

\* ----------------------------------------------------------------- C12
\* C12: malloc(n), n > 0, returns null exactly when no free block fits and
\* the sbrk-like primitive refuses to grow the heap (the heap end stays), and
\* then no heap word, heap end or free-list link has changed, so that the
\* allocator is in the state it was in before the call.
C12_NullOnlyWhenSbrkRefuses ==
    [][(last'.op = "malloc" /\ last'.n # U32Zero) =>
          LET nofit == find_fit(heap, adjusted_size(last'.n)) = NULL
              refused == nofit /\ mem_brk(mem') = mem_brk(mem)
          IN  /\ (last'.ret = NULL) <=> refused
              /\ refused => (mem' = mem /\ free_listp' = free_listp /\ live' = live)]_vars

\* a request of fewer than CHUNKSIZE bytes just refused, a block being live
C12_Refused ==
    /\ last.op = "malloc" /\ last.ret = NULL
    /\ last.n # U32Zero /\ U32Lt(last.n, CHUNKSIZE)
    /\ live # <<>>

\* ----------------------------------------------------------------- C13
\* the sizes of the blocks of a walk, added up
RECURSIVE SumSizes(_, _)
SumSizes(m, w) ==
    IF w = <<>> THEN 0 ELSE GET_SIZE(m, HDRP(Head(w))) + SumSizes(m, Tail(w))

\* the bytes obtained from sbrk since explicit_init began
HeapBytes == mem_brk(mem) - HeapStart

FirstBlock == heap_listp + DSIZE

\* one free block spans all heap bytes between the prologue and the epilogue,
\* and it is the only block of the free list
OneFreeBlock ==
    /\ Blocks = <<heap_listp, FirstBlock>>
    /\ GET(mem, HDRP(FirstBlock)) = PACK(mem_brk(mem) - FirstBlock, 0)
    /\ FreeList = <<FirstBlock>>
    /\ FreeListEnds

\* C17: whenever every pointer handed out since init has been freed, the
\* free list contains exactly one block, and that block spans all heap bytes
\* between the prologue and the epilogue.
C17_AllFreedOneBlock == (live = <<>>) => OneFreeBlock

\* ------------------------------------------------------------------ C14
\* the block at bp is allocated with size s, and the block behind it is free
\* and ends at the epilogue header
SplitOff(bp, s) ==
    LET next == NEXT_BLKP(mem, bp)
    IN  /\ GET(mem, HDRP(bp)) = PACK(s, 1)
        /\ GET_ALLOC(mem, HDRP(next)) = 0
        /\ HDRP(NEXT_BLKP(mem, next)) = mem_brk(mem) - WSIZE

\* the only call since explicit_init is p = malloc(32)
OnlyMalloc32 == Len(hist) = 1 /\ hist[1].n = ChurnSize

\* C14 as stated: after p = malloc(32) on the fresh heap, p's header holds
\* size 32 with alloc = 1, and the block behind p is free and holds the rest
\* of the first chunk.
C14_SplitHeader32 == OnlyMalloc32 => SplitOff(hist[1].ret, 32)

\* C14 amended: after p = malloc(32) on the fresh heap, p's header holds size
\* 48 (32 bytes of payload and 16 of header and footer) with alloc = 1, and
\* the block behind p is free and holds the other 4048 bytes of the first
\* chunk.
C14_SplitHeader48 ==
    OnlyMalloc32 =>
        /\ SplitOff(hist[1].ret, 48)
        /\ GET(mem, HDRP(NEXT_BLKP(mem, hist[1].ret))) = PACK(CHUNKSIZE - 48, 0)

C14_FirstMalloc32 == OnlyMalloc32 /\ hist[1].ret = FirstBlock /\ free_listp = FirstBlock + 48

\* ------------------------------------------------------------------ C15
\* A, B, C = malloc(64) have been handed out and nothing else has happened
ThreeOf64 == Asked(CoalesceSizes) /\ Len(hist) = Len(CoalesceSizes)

\* the run A, B, C = malloc(64); free(A); free(C); free(B) is over
FreedACB ==
    /\ Began(CoalesceSizes)
    /\ Len(hist) = 6
    /\ hist[4].ptr = hist[1].ret
    /\ hist[5].ptr = hist[3].ret
    /\ hist[6].ptr = hist[2].ret

\* C15 as stated: after A, B, C = malloc(64) and free(A), free(C), free(B) the
\* free list holds a single block, of size size(A) + size(B) + size(C), 80
\* bytes each.
C15_MergedIsSumOfThree ==
    FreedACB => /\ FreeList = <<hist[1].ret>>
                /\ GET_SIZE(mem, HDRP(hist[1].ret)) = 3 * 80

\* C15 amended: A, B and C are blocks of 80 bytes, and after free(A), free(C),
\* free(B) the free list holds a single block, of 4096 bytes: the 240 bytes of
\* A, B and C and the 3856 free bytes behind C that free(C) merged with C.
C15_MergedIsWholeChunk ==
    /\ ThreeOf64 => \A i \in 1..3 : GET(mem, HDRP(hist[i].ret)) = PACK(80, 1)
    /\ FreedACB => /\ FreeList = <<hist[1].ret>>
                   /\ FreeListEnds
                   /\ GET(mem, HDRP(hist[1].ret)) = PACK(3 * 80 + 3856, 0)
                   /\ GET(mem, FTRP(mem, hist[1].ret)) = PACK(CHUNKSIZE, 0)

C15_AllThreeFreed == FreedACB /\ live = <<>> /\ free_listp = FirstBlock

\* ------------------------------------------------------------------ C16
\* the blocks of 64, 128 and 256 bytes have been freed, in this order
FreedInOrder ==
    /\ Began(FitSizes)
    /\ Len(hist) >= 9
    /\ hist[7].ptr = hist[1].ret
    /\ hist[8].ptr = hist[3].ret
    /\ hist[9].ptr = hist[5].ret

\* ... and malloc has not been called since
ThreeHoles == FreedInOrder /\ Len(hist) = 9

\* ... and then malloc(100) has been called
Asked100 == FreedInOrder /\ Len(hist) = 10 /\ hist[10].n = <<0, 100>>

\* the free list holds the three blocks, the last freed first, and behind
\* them the rest of the chunk; no two of them touch
HolesInList ==
    /\ SubSeq(FreeList, 1, 3) = <<hist[5].ret, hist[3].ret, hist[1].ret>>
    /\ GET(mem, HDRP(hist[1].ret)) = PACK(64, 0)
    /\ GET(mem, HDRP(hist[3].ret)) = PACK(128, 0)
    /\ GET(mem, HDRP(hist[5].ret)) = PACK(256, 0)
    /\ \A i \in FitSlots : GET_ALLOC(mem, HDRP(NEXT_BLKP(mem, hist[i].ret))) = 1

\* C16 as stated: with free blocks of 64, 128 and 256 bytes put into the list
\* in that order, malloc(100) uses the adjusted size 112 and returns the
\* 128-byte block.
C16_Returns128 ==
    Asked100 => /\ adjusted_size(hist[10].n) = 112
                /\ hist[10].ret = hist[3].ret

\* C16 amended: with free blocks of 64, 128 and 256 bytes put into the list
\* in that order the 256-byte block is the head; malloc(100) uses the
\* adjusted size 120 and returns the 256-byte block, of which it keeps 120
\* bytes and leaves 136 free at the head of the list.
C16_Returns256 ==
    /\ ThreeHoles => HolesInList
    /\ Asked100 =>
          /\ adjusted_size(hist[10].n) = 120
          /\ hist[10].ret = hist[5].ret
          /\ GET(mem, HDRP(hist[10].ret)) = PACK(120, 1)
          /\ free_listp = hist[10].ret + 120
          /\ GET(mem, HDRP(free_listp)) = PACK(256 - 120, 0)
          /\ GET(mem, HDRP(hist[3].ret)) = PACK(128, 0)

C16_Got256 == Asked100 /\ hist[10].ret = hist[5].ret /\ hist[10].ret \in DOMAIN live

\* ------------------------------------------------------------------ C18
\* C18 as stated: during N calls of malloc(32) followed by N calls of free,
\* N being large enough for the blocks to exceed one chunk, the heap end
\* never moves: no malloc of the run extends the heap.
C18_HeapEndNeverMoves == [][InChurn' => mem_brk(mem') = mem_brk(mem)]_vars

\* C18 amended: during N calls of malloc(32) followed by N calls of free, the
\* first 85 mallocs are served from the chunk of explicit_init (84 blocks of
\* 48 bytes and one of 64), the 86th malloc extends the heap by CHUNKSIZE
\* bytes, and no other call of the run, and no free at all, moves the heap
\* end.
C18_HeapEndMovesAt86 ==
    [][InChurn' =>
          IF last'.op = "malloc" /\ Len(hist') = 86
          THEN /\ mem_brk(mem') = mem_brk(mem) + CHUNKSIZE
               /\ find_fit(heap, adjusted_size(ChurnSize)) = NULL
               /\ Cardinality(DOMAIN live) = 85
          ELSE mem_brk(mem') = mem_brk(mem)]_vars

C18_GrownAndFreed ==
    /\ InChurn
    /\ Len(hist) >= 2 * 86
    /\ live = <<>>
    /\ nsbrk = 1
    /\ HeapBytes = 4 * WSIZE + 2 * CHUNKSIZE

\* ------------------------------------------------------------------ C19
\* in heap h the head of the free list is a free block with equal header and
\* footer that holds the byte at p
HeadHolds(h, p) ==
    LET bp == h.free_listp
    IN  /\ bp # NULL
        /\ GET_ALLOC(h.mem, HDRP(bp)) = 0
        /\ GET(h.mem, FTRP(h.mem, bp)) = GET(h.mem, HDRP(bp))
        /\ bp <= p
        /\ p < bp + GET_SIZE(h.mem, HDRP(bp)) - DSIZE

\* C19: right after free(p) the free block holding p's bytes is the head of
\* the free list, with header = footer = (size, 0); and a malloc(n), n > 0,
\* that directly follows and whose adjusted size is at most that size
\* returns this block.
C19_FreedBlockReusedFirst ==
    [][/\ last'.op = "free" => HeadHolds(heapAfter, last'.ptr)
       /\ ( /\ last.op = "free"
            /\ last'.op = "malloc"
            /\ last'.n # U32Zero
            /\ adjusted_size(last'.n) <= GET_SIZE(mem, HDRP(free_listp)) )
          => last'.ret = free_listp]_vars

\* ------------------------------------------------------------------ C20
\* in heap h the block at bp is allocated with size csize in header and
\* footer
TakenWhole(h, bp, csize) ==
    /\ GET(h.mem, HDRP(bp)) = PACK(csize, 1)
    /\ GET(h.mem, FTRP(h.mem, bp)) = PACK(csize, 1)

\* in heap h the csize bytes at bp are an allocated block of asize bytes and
\* a free block of the other bytes, which is the head of the free list
SplitInTwo(h, bp, asize, csize) ==
    /\ TakenWhole(h, bp, asize)
    /\ h.free_listp = bp + asize
    /\ GET(h.mem, HDRP(h.free_listp)) = PACK(csize - asize, 0)
    /\ GET(h.mem, FTRP(h.mem, h.free_listp)) = PACK(csize - asize, 0)

\* no block behind the prologue that the heap walk meets, and no block of
\* the free list, has less than MINBLOCKSIZE bytes
NoSmallBlock ==
    /\ \A i \in 2..Len(Blocks) : GET_SIZE(mem, HDRP(Blocks[i])) >= MINBLOCKSIZE
    /\ \A bp \in Range(FreeList) : GET_SIZE(mem, HDRP(bp)) >= MINBLOCKSIZE

\* C20: a malloc that places its adjusted size asize in a free block of csize
\* bytes (a fit, or the block a heap extension made) splits it exactly when
\* csize - asize >= 32, into an allocated block of asize bytes and a free
\* block of csize - asize bytes at the head of the free list, and takes all
\* csize bytes otherwise; every block malloc hands out has a size s with
\* asize <= s < asize + 32; and no block but the sentinels is ever smaller
\* than 32 bytes.
C20_SplitPolicy ==
    /\ []NoSmallBlock
    /\ [][(last'.op = "malloc" /\ last'.ret # NULL) =>
            LET asize == adjusted_size(last'.n)
                fit == find_fit(heap, asize)
                e == extend_heap(heap, MAX(asize, CHUNKSIZE) \div WSIZE, TRUE)
                bp == IF fit # NULL THEN fit ELSE e.bp
                csize == IF fit # NULL THEN GET_SIZE(mem, HDRP(bp))
                         ELSE GET_SIZE(e.h.mem, HDRP(bp))
                s == GET_SIZE(mem', HDRP(last'.ret))
            IN  /\ asize <= s
                /\ s < asize + MINBLOCKSIZE
                /\ last'.ret = bp
                /\ csize >= asize
                /\ IF csize - asize >= MINBLOCKSIZE
                   THEN SplitInTwo(heapAfter, bp, asize, csize)
                   ELSE TakenWhole(heapAfter, bp, csize)]_vars

=============================================================================
